---- MODULE Spec2Model ----
(***************************************************************************)
(* tiny-docker-go (main.go): the `run` launcher, the re-executed `child`   *)
(* bootstrapper (RunChild), `pull` (Pull) and the directory helper         *)
(* initDir, over a model of the host disk and of the child's mount         *)
(* namespace.  Spec is one launch after another, SpecPull one pull after   *)
(* another, SpecConc two bootstrappers at once, SpecPaths the directories  *)
(* of two (name, tag) pairs.                                               *)
(*                                                                         *)
(* Strings are TLA+ strings; a string that the program parses             *)
(* (os.Args[2], "name:tag") is a sequence of one-character strings.        *)
(* A path is the sequence of its components; the disk is a function from   *)
(* absolute host paths to nodes.                                           *)
(***************************************************************************)
EXTENDS Integers, Sequences, FiniteSets, TLC

VARIABLES
    osArgs,      \* os.Args of the `run` invocation
    stdin,       \* what the inherited standard input holds
    pc,          \* position of the launcher / the child in main.go
    run,         \* number of the current invocation (1, 2, ...); it marks
                 \* the disk nodes the invocation makes
    disk,        \* host disk: absolute path -> node
    staleAtStart,\* the disk paths that existed when the current run started
    childNs,     \* namespaces the child was created in (Cloneflags)
    childArgs,   \* os.Args[1..] of the re-executed child
    image,       \* Image{Name, Tag} parsed by the child's main
    command,     \* `command` of main's child case
    mounts,      \* mount table of the child's mount namespace, in mount order
    tmpfs,       \* contents of the tmpfs mounted on dev: name -> device node
    hostname,    \* hostname of the child's UTS namespace
    cwdFs,       \* filesystem type of the mount holding the child's cwd
    err,         \* the error handed to noErr by the last failing call
    execArgv,    \* argv of the user command started by cmd.Run (<<>>: none)
    stdout,      \* what the user command wrote to the inherited stdout
    userStatus,  \* exit status of the user command (-1: none)
    childStatus, \* exit status of the child process (-1: none)
    runStatus,   \* exit status of the `run` process (-1: none)
    pairA, pairB,\* two (name, tag) pairs whose container paths are compared
    umask,       \* file mode creation mask the processes inherit
    procs,       \* the processes alive in the child's PID namespace
    token,       \* registry token held by Pull ("": none)
    layerDigests,\* layerDigests of downloadLayers
    layerNo,     \* index in layerDigests of the layer being stored (0: none)
    other        \* a second bootstrapper, suspended: its process state

\* the state of Pull
pullVars == <<token, layerDigests, layerNo>>

vars == <<osArgs, stdin, pc, run, disk, staleAtStart, childNs, childArgs,
          image, command, mounts, tmpfs, hostname, cwdFs, err, execArgv,
          stdout, userStatus, childStatus, runStatus, pairA, pairB, umask,
          procs, pullVars, other>>

(***************************************************************************)
(* Bounds                                                                  *)
(***************************************************************************)
\* longest name and longest tag of the pairs whose paths are compared
MaxLen == 2
\* number of successive `run` invocations of the same image
MaxRuns == 2

(***************************************************************************)
(* Strings and paths                                                       *)
(***************************************************************************)
Alphabet == {"a", "_"}

\* the character sequences of length 1..n over Alphabet
CharSeqs(n) == UNION {[1..k -> Alphabet] : k \in 1..n}

RECURSIVE StrOf(_)
\* the string spelled by a sequence of characters
StrOf(cs) == IF cs = <<>> THEN "" ELSE Head(cs) \o StrOf(Tail(cs))

RECURSIVE SplitFrom(_, _, _)
SplitFrom(cs, sep, cur) ==
    IF cs = <<>> THEN <<StrOf(cur)>>
    ELSE IF Head(cs) = sep THEN <<StrOf(cur)>> \o SplitFrom(Tail(cs), sep, <<>>)
    ELSE SplitFrom(Tail(cs), sep, Append(cur, Head(cs)))

\* strings.Split(s, sep) for a one-character separator
Split(cs, sep) == SplitFrom(cs, sep, <<>>)

IsPrefix(p, q) == Len(p) <= Len(q) /\ SubSeq(q, 1, Len(p)) = p

\* q with its prefix p taken off
StripPrefix(p, q) == SubSeq(q, Len(p) + 1, Len(q))

\* the non-empty prefixes of p
Prefixes(p) == {SubSeq(p, 1, k) : k \in 1..Len(p)}

\* two paths overlap when they are equal or one is nested in the other
Overlap(p, q) == IsPrefix(p, q) \/ IsPrefix(q, p)

\* the working directory of the dockie process on the host
HostCwd == <<"cwd">>

ImagesPath == <<".dockie", "images">>

ContainerDataPath == <<".dockie", "containers">>

\* filepath.Abs of a relative path
Abs(p) == HostCwd \o p

\* filepath.Join(dir, name) for a name that holds no separator
Join(dir, name) == Append(dir, name)

(***************************************************************************)
(* Container and image paths                                               *)
(***************************************************************************)
\* a variant of the identifier without the program's prefix
ContainerIdBare(img) == img.Name \o "_" \o img.Tag

\* fmt.Sprintf("dockie_%s_%s", image.Name, image.Tag)
ContainerId(img) == "dockie_" \o img.Name \o "_" \o img.Tag

\* a variant with one directory for all containers
RootDirShared(img) == Join(Abs(ContainerDataPath), "dockie")

\* line 230: the per-container directory
RootDir(img) == Join(Abs(ContainerDataPath), ContainerId(img))

RootFsDir(img) == Join(RootDir(img), "rootfs")

RwDir(img) == Join(RootDir(img), "cow_rw")

WorkDir(img) == Join(RootDir(img), "cow_workdir")

ProcDir(img) == Join(RootDir(img), "proc")

SysDir(img) == Join(RootDir(img), "sys")

DevDir(img) == Join(RootDir(img), "dev")

OldRoot(img) == Join(RootDir(img), "oldroot")

\* the extracted layers of the image: <images>/<name>/layers/contents/<tag>
ImageDir(img) ==
    Join(Join(Join(Join(Abs(ImagesPath), img.Name), "layers"), "contents"), img.Tag)

\* the directories RunChild derives for a (name, tag) pair
ContainerPaths(img) == {RootDir(img), RootFsDir(img), RwDir(img), WorkDir(img)}

(***************************************************************************)
(* Disk nodes                                                              *)
(***************************************************************************)
NoNode == [kind |-> "none", data |-> "", gen |-> 0, opaque |-> FALSE]

\* a directory made in run g
DirNode(g) == [kind |-> "dir", data |-> "", gen |-> g, opaque |-> FALSE]

OpaqueDir(g) == [kind |-> "dir", data |-> "", gen |-> g, opaque |-> TRUE]

FileNode(s, g) == [kind |-> "file", data |-> s, gen |-> g, opaque |-> FALSE]

Whiteout(g) == [kind |-> "whiteout", data |-> "", gen |-> g, opaque |-> FALSE]

Put(d, p, n) == [q \in DOMAIN d \cup {p} |-> IF q = p THEN n ELSE d[q]]

\* d without p and everything below it
RemoveTree(d, p) == [q \in {x \in DOMAIN d : ~IsPrefix(p, x)} |-> d[q]]

\* os.MkdirAll on the plain disk: p and its missing parents become directories
DiskMkdirAll(d, p, g) ==
    [q \in DOMAIN d \cup Prefixes(p) |-> IF q \in DOMAIN d THEN d[q] ELSE DirNode(g)]

\* the part of the disk at or below p
Tree(d, p) == [q \in {x \in DOMAIN d : IsPrefix(p, x)} |-> d[q]]

(***************************************************************************)
(* Mount namespace of the child and path resolution                        *)
(***************************************************************************)
MS_NODEV == "MS_NODEV"

MS_NOSUID == "MS_NOSUID"

MS_STRICTATIME == "MS_STRICTATIME"

MS_PRIVATE == "MS_PRIVATE"

MS_REC == "MS_REC"

\* a mount-table entry; lowerdir/upperdir/workdir are host disk paths
MountRec(target, fstype, flags, lower, upper, work, prop) ==
    [target |-> target, fstype |-> fstype, flags |-> flags,
     lowerdir |-> lower, upperdir |-> upper, workdir |-> work, prop |-> prop]

\* the mount namespace a child starts with: a copy of the host's, whose root
\* belongs to the host's shared propagation group
HostMounts == <<MountRec(<<>>, "hostfs", {}, <<>>, <<>>, <<>>, "shared")>>

\* index of the mount a path resolves into: the longest target that is a
\* prefix of the path, the latest mount among equals
MntIndex(ms, p) ==
    CHOOSE i \in 1..Len(ms) :
        /\ IsPrefix(ms[i].target, p)
        /\ \A j \in 1..Len(ms) :
              IsPrefix(ms[j].target, p) =>
                  \/ Len(ms[j].target) < Len(ms[i].target)
                  \/ Len(ms[j].target) = Len(ms[i].target) /\ j <= i

Mnt(ms, p) == ms[MntIndex(ms, p)]

\* the path inside the mount it resolves into
RelIn(ms, p) == StripPrefix(Mnt(ms, p).target, p)

IsMountPoint(ms, p) == \E i \in 1..Len(ms) : ms[i].target = p /\ p # <<>>

HasMountBelow(ms, p) == \E i \in 1..Len(ms) : IsPrefix(p, ms[i].target)

(***************************************************************************)
(* Overlay filesystem: merged view of lowerdir and upperdir                *)
(***************************************************************************)
\* the lower entry at rel is hidden by a whiteout, a file or an opaque
\* directory of the upper layer on the way to it
OvHidden(d, m, rel) ==
    \E k \in 1..Len(rel) :
        LET u == m.upperdir \o SubSeq(rel, 1, k)
        IN  /\ u \in DOMAIN d
            /\ \/ d[u].kind \in {"whiteout", "file"}
               \/ d[u].opaque /\ k < Len(rel)

OvLookup(d, m, rel) ==
    LET u == m.upperdir \o rel
        l == m.lowerdir \o rel
    IN  IF u \in DOMAIN d
        THEN IF d[u].kind = "whiteout" THEN NoNode ELSE d[u]
        ELSE IF l \in DOMAIN d /\ ~OvHidden(d, m, rel) THEN d[l] ELSE NoNode

\* copy-up: the directories leading to rel exist in the upper layer
OvCopyUpParents(d, m, rel, g) ==
    IF Len(rel) <= 1 THEN d
    ELSE DiskMkdirAll(d, m.upperdir \o SubSeq(rel, 1, Len(rel) - 1), g)

\* removal through the overlay: the upper entries go, a lower entry that
\* would show through is covered by a whiteout
OvRemoveAll(d, m, rel, g) ==
    LET u  == m.upperdir \o rel
        d1 == RemoveTree(d, u)
    IN  IF (m.lowerdir \o rel) \in DOMAIN d1 /\ ~OvHidden(d1, m, rel)
        THEN Put(OvCopyUpParents(d1, m, rel, g), u, Whiteout(g))
        ELSE d1

\* mkdir through the overlay: the directory is made in the upper layer,
\* opaque when it replaces a whiteout
OvMkdir(d, m, rel, g) ==
    LET u == m.upperdir \o rel
    IN  IF OvLookup(d, m, rel) # NoNode THEN d
        ELSE Put(OvCopyUpParents(d, m, rel, g), u,
                 IF u \in DOMAIN d THEN OpaqueDir(g) ELSE DirNode(g))

\* a node written through the overlay lands in the upper layer
OvPut(d, m, rel, n) == Put(OvCopyUpParents(d, m, rel, n.gen), m.upperdir \o rel, n)

(***************************************************************************)
(* File operations through the mount table                                 *)
(***************************************************************************)
\* os.Stat: the node a path names in the namespace, NoNode when none
FsLookup(d, ms, p) ==
    LET m   == Mnt(ms, p)
        rel == RelIn(ms, p)
    IN  IF rel = <<>> THEN DirNode(0)
        ELSE IF m.fstype = "hostfs" THEN (IF rel \in DOMAIN d THEN d[rel] ELSE NoNode)
        ELSE IF m.fstype = "overlay" THEN OvLookup(d, m, rel)
        ELSE NoNode

\* os.RemoveAll
FsRemoveAll(d, ms, p, g) ==
    LET m   == Mnt(ms, p)
        rel == RelIn(ms, p)
    IN  IF m.fstype = "hostfs" THEN RemoveTree(d, rel)
        ELSE IF m.fstype = "overlay" THEN OvRemoveAll(d, m, rel, g)
        ELSE d

\* os.MkdirAll (the parents of the directories RunChild makes exist already
\* inside a mount, so one directory is made there)
FsMkdirAll(d, ms, p, g) ==
    LET m   == Mnt(ms, p)
        rel == RelIn(ms, p)
    IN  IF m.fstype = "hostfs" THEN DiskMkdirAll(d, rel, g)
        ELSE IF m.fstype = "overlay" THEN OvMkdir(d, m, rel, g)
        ELSE d

\* a file or node created or overwritten at p
FsPut(d, ms, p, n) ==
    LET m   == Mnt(ms, p)
        rel == RelIn(ms, p)
    IN  IF m.fstype = "hostfs" THEN Put(d, rel, n)
        ELSE IF m.fstype = "overlay" THEN OvPut(d, m, rel, n)
        ELSE d

\* the host disk path a path of the namespace names (plain disk only)
DiskPathOf(ms, p) == RelIn(ms, p)

(***************************************************************************)
(* initDir and noErr                                                       *)
(***************************************************************************)
\* initDir, lines 345-347: whatever is at dir is removed
InitDirRemoved(d, ms, dir, g) ==
    IF FsLookup(d, ms, dir) # NoNode THEN FsRemoveAll(d, ms, dir, g) ELSE d

\* a variant of initDir that keeps an existing directory
InitDirKeep(d, ms, dir, g) ==
    IF FsLookup(d, ms, dir) = NoNode THEN FsMkdirAll(d, ms, dir, g) ELSE d

\* initDir: remove what is there, then make the directory
InitDir(d, ms, dir, g) ==
    LET d1 == InitDirRemoved(d, ms, dir, g)
    IN  IF FsLookup(d1, ms, dir) = NoNode THEN FsMkdirAll(d1, ms, dir, g) ELSE d1

NoError == ""

\* a variant of noErr that drops the error
NoErrIgnore(e, next) == next

\* noErr: where control goes after a call that returned e
NoErr(e, next) == IF e # NoError THEN "panic" ELSE next

(***************************************************************************)
(* Inputs and initial states                                               *)
(***************************************************************************)
NoImage == [Name |-> "", Tag |-> ""]

\* main, lines 29-33: the image named by os.Args[2]
ImageOf(ref) == LET s == Split(ref, ":") IN [Name |-> s[1], Tag |-> s[2]]

\* the image references of the modelled invocations
Refs == {<<"a", ":", "a">>}

\* the user commands of the modelled invocations, as typed after name:tag;
\* <<>>: no command was typed
Commands == {<<"cat", "/hello.txt">>, <<"sh">>, <<>>}

Invocations == {<<"dockie", "run", r>> \o c : r \in Refs, c \in Commands}

EmptyDisk == [q \in {} |-> NoNode]

\* a host on which only the working directory exists
BaseDisk == DiskMkdirAll(EmptyDisk, HostCwd, 0)

\* a pulled image holding /hello.txt with content "hi"
ImageHello(d, img) ==
    Put(DiskMkdirAll(d, ImageDir(img), 0),
        Join(ImageDir(img), "hello.txt"), FileNode("hi", 0))

\* a pulled image that also ships /proc/1 and /oldroot
ImageFull(d, img) ==
    LET d1 == DiskMkdirAll(ImageHello(d, img), Join(ImageDir(img), "oldroot"), 0)
        d2 == DiskMkdirAll(d1, Join(ImageDir(img), "proc"), 0)
    IN  Put(d2, Join(Join(ImageDir(img), "proc"), "1"), FileNode("p", 0))

\* what an earlier container of the same identifier left on the disk
StaleContainer(d, img) ==
    LET d1 == DiskMkdirAll(d, RootFsDir(img), 0)
        d2 == DiskMkdirAll(d1, Join(WorkDir(img), "work"), 0)
        d3 == DiskMkdirAll(d2, Join(RwDir(img), "oldroot"), 0)
        d4 == Put(d3, Join(RwDir(img), "newfile"), FileNode("old", 0))
    IN  Put(d4, Join(RwDir(img), "hello.txt"), Whiteout(0))

InitialDisks(img) ==
    LET images == {BaseDisk, ImageHello(BaseDisk, img), ImageFull(BaseDisk, img)}
    IN  images \cup {StaleContainer(d, img) : d \in images}

\* the disk paths inside the container-data directory
ContainerData(d) == {q \in DOMAIN d : IsPrefix(Abs(ContainerDataPath), q)}

\* the file mode creation masks a shell hands to the program: none, and
\* the usual 022
Umasks == {<<0, 0, 0>>, <<0, 2, 2>>}

\* the process state before anything ran
Idle ==
    /\ childNs = {}
    /\ childArgs = <<>>
    /\ image = NoImage
    /\ command = ""
    /\ mounts = <<>>
    /\ tmpfs = {}
    /\ hostname = "host"
    /\ cwdFs = "hostfs"
    /\ err = NoError
    /\ execArgv = <<>>
    /\ stdout = ""
    /\ userStatus = -1
    /\ childStatus = -1
    /\ runStatus = -1
    /\ procs = {}

\* no pull is going on and no second bootstrapper exists
NoPull == token = "" /\ layerDigests = <<>> /\ layerNo = 0
Nobody == <<>>

Init ==
    /\ osArgs \in Invocations
    /\ stdin \in {"", "hi"}
    /\ pc = "main"
    /\ run = 1
    /\ disk \in InitialDisks(ImageOf(osArgs[3]))
    /\ staleAtStart = ContainerData(disk)
    /\ Idle
    /\ pairA = NoImage
    /\ pairB = NoImage
    /\ umask \in Umasks
    /\ NoPull
    /\ other = Nobody

(***************************************************************************)
(* main and Run: the launcher                                              *)
(***************************************************************************)
CLONE_NEWUTS == "CLONE_NEWUTS"

CLONE_NEWPID == "CLONE_NEWPID"

CLONE_NEWNS == "CLONE_NEWNS"

\* Run, lines 204-206
Cloneflags == {CLONE_NEWUTS, CLONE_NEWPID, CLONE_NEWNS}

\* Run, line 201: append([]string{"child"}, os.Args[2:]...)
ChildArgsOf(args) == <<"child">> \o SubSeq(args, 3, Len(args))

\* main, lines 25-28: both data directories are made
MainDirs(d, g) == DiskMkdirAll(DiskMkdirAll(d, Abs(ImagesPath), g), Abs(ContainerDataPath), g)

\* main, lines 29-33: os.Args[2] is split at ":" and indexed at 0 and 1
RefParses(args) == Len(args) >= 3 /\ Len(Split(args[3], ":")) >= 2

\* main in the launcher, lines 24-39: directories, image reference, dispatch
LauncherMain ==
    /\ pc = "main"
    /\ \E e \in {"mkdirall"} \cup
                (IF RefParses(osArgs) /\ osArgs[2] = "run"
                 THEN {NoError} ELSE {"index out of range"}) :
          /\ disk' = IF e = NoError THEN MainDirs(disk, run) ELSE disk
          /\ err' = e
          /\ pc' = IF e = NoError THEN "run" ELSE "done"
          /\ runStatus' = IF e = NoError THEN runStatus ELSE 2
    /\ UNCHANGED <<osArgs, stdin, run, staleAtStart, childNs, childArgs, image,
                   command, mounts, tmpfs, hostname, cwdFs, execArgv, stdout,
                   userStatus, childStatus, pairA, pairB,
                   umask, procs, pullVars, other>>

\* line 200: the program the launcher starts as the child
SelfExe == "/proc/self/exe"

\* a process of the child's PID namespace
Process(pid, exe) == [pid |-> pid, exe |-> exe]

\* exec.Cmd.Start (inside cmd.Run): a new process runs the program beside
\* the calling one, under the next process id of the namespace
Start(ps, exe) == ps \cup {Process(Cardinality(ps) + 1, exe)}

\* Run, lines 200-212: the child is created in new namespaces, as process 1
\* of its PID namespace; cmd.Run blocks until it ends
Run ==
    /\ pc = "run"
    /\ \E e \in {NoError, "clone"} :
          /\ err' = e
          /\ IF e = NoError
             THEN /\ childNs' = Cloneflags
                  /\ childArgs' = ChildArgsOf(osArgs)
                  /\ mounts' = HostMounts
                  /\ pc' = "child_main"
                  /\ UNCHANGED runStatus
             ELSE /\ pc' = "done"
                  /\ runStatus' = 2
                  /\ UNCHANGED <<childNs, childArgs, mounts>>
    /\ UNCHANGED <<osArgs, stdin, run, disk, staleAtStart, image, command, tmpfs,
                   hostname, cwdFs, execArgv, stdout, userStatus, childStatus,
                   pairA, pairB,
                   umask, pullVars, other>>
    /\ procs' = IF pc' = "child_main" THEN {Process(1, SelfExe)} ELSE procs

(***************************************************************************)
(* main in the child and RunChild                                          *)
(***************************************************************************)
\* a variant of RunChild that mounts the overlay before making "/" private
StepOrderPrivateLate ==
    <<"init_root", "init_rootfs", "init_rw", "init_work", "sethostname",
      "mount_overlay", "mount_private", "init_proc", "mount_proc", "init_sys",
      "mount_sys", "init_dev", "mount_dev", "mknod_null", "mknod_tty",
      "mknod_random", "init_oldroot", "pivot_root", "chdir", "unmount", "exec">>

\* a variant of RunChild that leaves the old root mounted
StepOrderNoUnmount ==
    <<"init_root", "init_rootfs", "init_rw", "init_work", "sethostname",
      "mount_private", "mount_overlay", "init_proc", "mount_proc", "init_sys",
      "mount_sys", "init_dev", "mount_dev", "mknod_null", "mknod_tty",
      "mknod_random", "init_oldroot", "pivot_root", "chdir", "exec">>

\* the calls of RunChild in source order (lines 231-318)
StepOrder ==
    <<"init_root", "init_rootfs", "init_rw", "init_work", "sethostname",
      "mount_private", "mount_overlay", "init_proc", "mount_proc", "init_sys",
      "mount_sys", "init_dev", "mount_dev", "mknod_null", "mknod_tty",
      "mknod_random", "init_oldroot", "pivot_root", "chdir", "unmount", "exec">>

\* the call that follows call l
After(l) ==
    LET i == CHOOSE k \in 1..Len(StepOrder) : StepOrder[k] = l
    IN  IF i < Len(StepOrder) THEN StepOrder[i + 1] ELSE "running"

\* main in the child, lines 24-45: the same parse, then command := os.Args[3]
ChildMain ==
    /\ pc = "child_main"
    /\ \E e \in {"mkdirall"} \cup
                (IF RefParses(<<"dockie">> \o childArgs) /\ Len(childArgs) >= 3
                 THEN {NoError} ELSE {"index out of range"}) :
          /\ disk' = IF e = NoError THEN MainDirs(disk, run) ELSE disk
          /\ image' = IF e = NoError THEN ImageOf(childArgs[2]) ELSE image
          /\ command' = IF e = NoError THEN childArgs[3] ELSE command
          /\ err' = e
          /\ pc' = NoErr(e, StepOrder[1])
    /\ UNCHANGED <<osArgs, stdin, run, staleAtStart, childNs, childArgs, mounts,
                   tmpfs, hostname, cwdFs, execArgv, stdout, userStatus,
                   childStatus, runStatus, pairA, pairB,
                   umask, procs, pullVars, other>>

\* the directory each initDir call of RunChild is given
InitDirArg(l, img) ==
    CASE l = "init_root"    -> RootDir(img)
      [] l = "init_rootfs"  -> RootFsDir(img)
      [] l = "init_rw"      -> RwDir(img)
      [] l = "init_work"    -> WorkDir(img)
      [] l = "init_proc"    -> ProcDir(img)
      [] l = "init_sys"     -> SysDir(img)
      [] l = "init_dev"     -> DevDir(img)
      [] l = "init_oldroot" -> OldRoot(img)

InitLabels ==
    {"init_root", "init_rootfs", "init_rw", "init_work", "init_proc", "init_sys",
     "init_dev", "init_oldroot"}

\* one initDir call of RunChild (lines 231-237, 288, 293, 298, 309); RemoveAll
\* fails on a directory that holds a mount point
InitDirStep ==
    /\ pc \in InitLabels
    /\ LET dir    == InitDirArg(pc, image)
           exists == FsLookup(disk, mounts, dir) # NoNode
       IN  \E e \in {NoError, "removeall", "mkdirall"} :
              /\ e = "removeall" => exists
              /\ (exists /\ HasMountBelow(mounts, dir)) => e = "removeall"
              /\ disk' = CASE e = NoError     -> InitDir(disk, mounts, dir, run)
                           [] e = "removeall" -> disk
                           [] e = "mkdirall"  -> InitDirRemoved(disk, mounts, dir, run)
              /\ err' = e
              /\ pc' = NoErr(e, After(pc))
    /\ UNCHANGED <<osArgs, stdin, run, staleAtStart, childNs, childArgs, image,
                   command, mounts, tmpfs, hostname, cwdFs, execArgv, stdout,
                   userStatus, childStatus, runStatus, pairA, pairB,
                   umask, procs, pullVars, other>>

\* line 268: unix.Sethostname([]byte(containerId))
Sethostname ==
    /\ pc = "sethostname"
    /\ \E e \in {NoError, "sethostname"} :
          /\ hostname' = IF e = NoError THEN ContainerId(image) ELSE hostname
          /\ err' = e
          /\ pc' = NoErr(e, After(pc))
    /\ UNCHANGED <<osArgs, stdin, run, disk, staleAtStart, childNs, childArgs,
                   image, command, mounts, tmpfs, cwdFs, execArgv, stdout,
                   userStatus, childStatus, runStatus, pairA, pairB,
                   umask, procs, pullVars, other>>

\* mount(2) with a propagation flag: the mount at target, and with MS_REC
\* every mount below it, changes its propagation type
SetPropagation(ms, target, flags) ==
    [i \in 1..Len(ms) |->
        IF MS_PRIVATE \in flags
           /\ \/ ms[i].target = target
              \/ MS_REC \in flags /\ IsPrefix(target, ms[i].target)
        THEN [ms[i] EXCEPT !.prop = "private"]
        ELSE ms[i]]

\* line 273: unix.Mount("rootfs", "/", "", MS_PRIVATE|MS_REC, "")
MountPrivate ==
    /\ pc = "mount_private"
    /\ \E e \in {NoError, "mount_private"} :
          /\ mounts' = IF e = NoError
                       THEN SetPropagation(mounts, <<>>, {MS_PRIVATE, MS_REC})
                       ELSE mounts
          /\ err' = e
          /\ pc' = NoErr(e, After(pc))
    /\ UNCHANGED <<osArgs, stdin, run, disk, staleAtStart, childNs, childArgs,
                   image, command, tmpfs, hostname, cwdFs, execArgv, stdout,
                   userStatus, childStatus, runStatus, pairA, pairB,
                   umask, procs, pullVars, other>>

IsDir(d, ms, p) == FsLookup(d, ms, p).kind = "dir"

\* a variant of the overlay options with the two layers exchanged
OverlayOptsSwapped(img) ==
    [lowerdir |-> RwDir(img), upperdir |-> ImageDir(img), workdir |-> WorkDir(img)]

\* lines 276-283: lowerdir=<imageDir>,upperdir=<rwDir>,workdir=<workDir>
OverlayOpts(img) ==
    [lowerdir |-> ImageDir(img), upperdir |-> RwDir(img), workdir |-> WorkDir(img)]

\* line 280: the directory the overlay is mounted on
OverlayTarget(img) == RootDir(img)

\* lines 278-284: unix.Mount("overlay", rootDir, "overlay", MS_NODEV, opts).
\* The kernel refuses the mount when the target or one of the three
\* directories is missing, and makes <workdir>/work.
MountOverlay ==
    /\ pc = "mount_overlay"
    /\ LET o      == OverlayOpts(image)
           t      == OverlayTarget(image)
           usable == /\ IsDir(disk, mounts, t)
                     /\ IsDir(disk, mounts, o.lowerdir)
                     /\ IsDir(disk, mounts, o.upperdir)
                     /\ IsDir(disk, mounts, o.workdir)
           work   == DiskPathOf(mounts, o.workdir)
       IN  \E e \in {NoError, "mount_overlay"} :
              /\ ~usable => e # NoError
              /\ IF e = NoError
                 THEN /\ mounts' = Append(mounts,
                            MountRec(t, "overlay", {MS_NODEV},
                                     DiskPathOf(mounts, o.lowerdir),
                                     DiskPathOf(mounts, o.upperdir),
                                     work, Mnt(mounts, t).prop))
                      /\ disk' = Put(RemoveTree(disk, Join(work, "work")),
                                     Join(work, "work"), DirNode(run))
                 ELSE UNCHANGED <<mounts, disk>>
              /\ err' = e
              /\ pc' = NoErr(e, After(pc))
    /\ UNCHANGED <<osArgs, stdin, run, staleAtStart, childNs, childArgs, image,
                   command, tmpfs, hostname, cwdFs, execArgv, stdout, userStatus,
                   childStatus, runStatus, pairA, pairB,
                   umask, procs, pullVars, other>>

\* the three pseudo-filesystem mounts (lines 289, 294, 299)
PseudoMount(l, img) ==
    CASE l = "mount_proc" -> [target |-> ProcDir(img), fstype |-> "proc", flags |-> {}]
      [] l = "mount_sys"  -> [target |-> SysDir(img), fstype |-> "sysfs", flags |-> {}]
      [] l = "mount_dev"  -> [target |-> DevDir(img), fstype |-> "tmpfs",
                              flags |-> {MS_NOSUID, MS_STRICTATIME}]

\* lines 289, 294, 299: unix.Mount of proc, sysfs and the /dev tmpfs; the
\* target has to be a directory
MountPseudo ==
    /\ pc \in {"mount_proc", "mount_sys", "mount_dev"}
    /\ LET a == PseudoMount(pc, image)
       IN  \E e \in {NoError, pc} :
              /\ ~IsDir(disk, mounts, a.target) => e # NoError
              /\ mounts' = IF e = NoError
                           THEN Append(mounts,
                                    MountRec(a.target, a.fstype, a.flags, <<>>, <<>>,
                                             <<>>, Mnt(mounts, a.target).prop))
                           ELSE mounts
              /\ err' = e
              /\ pc' = NoErr(e, After(pc))
    /\ UNCHANGED <<osArgs, stdin, run, disk, staleAtStart, childNs, childArgs,
                   image, command, tmpfs, hostname, cwdFs, execArgv, stdout,
                   userStatus, childStatus, runStatus, pairA, pairB,
                   umask, procs, pullVars, other>>

\* S_IFCHR|0666; a permission is its three octal digits
ModeChr0666 == [type |-> "chr", perm |-> <<6, 6, 6>>]

\* the bits of an octal digit
Bits(digit) == {b \in {1, 2, 4} : (digit \div b) % 2 = 1}

\* digit &^ mask
AndNot(digit, mask) ==
    LET s == Bits(digit) \ Bits(mask)
    IN  (IF 1 \in s THEN 1 ELSE 0) + (IF 2 \in s THEN 2 ELSE 0)
          + (IF 4 \in s THEN 4 ELSE 0)

\* mknod(2): the node gets the requested permissions without the bits of
\* the caller's umask
CreatedMode(mode, mask) ==
    [mode EXCEPT !.perm = [i \in 1..3 |-> AndNot(mode.perm[i], mask[i])]]

\* the three device nodes (lines 301, 303, 305)
DeviceNode(l) ==
    CASE l = "mknod_null"   -> [name |-> "null", mode |-> ModeChr0666, major |-> 1, minor |-> 3]
      [] l = "mknod_tty"    -> [name |-> "tty", mode |-> ModeChr0666, major |-> 5, minor |-> 0]
      [] l = "mknod_random" -> [name |-> "random", mode |-> ModeChr0666, major |-> 1, minor |-> 8]

\* lines 301-305: unix.Mknod(filepath.Join(devDir, name), S_IFCHR|0666, dev);
\* the node is made in the filesystem the path resolves into
Mknod ==
    /\ pc \in {"mknod_null", "mknod_tty", "mknod_random"}
    /\ LET req  == DeviceNode(pc)
           n    == [req EXCEPT !.mode = CreatedMode(req.mode, umask)]
           path == Join(DevDir(image), n.name)
           fs   == Mnt(mounts, path).fstype
           busy == IF fs = "tmpfs" THEN \E x \in tmpfs : x.name = n.name
                   ELSE FsLookup(disk, mounts, path) # NoNode
       IN  \E e \in {NoError, pc} :
              /\ (busy \/ fs \notin {"tmpfs", "hostfs", "overlay"}) => e # NoError
              /\ tmpfs' = IF e = NoError /\ fs = "tmpfs" THEN tmpfs \cup {n} ELSE tmpfs
              /\ disk' = IF e = NoError /\ fs # "tmpfs"
                         THEN FsPut(disk, mounts, path,
                                    [kind |-> "chr", data |-> n.name, gen |-> run,
                                     opaque |-> FALSE])
                         ELSE disk
              /\ err' = e
              /\ pc' = NoErr(e, After(pc))
    /\ UNCHANGED <<osArgs, stdin, run, staleAtStart, childNs, childArgs, image,
                   command, mounts, hostname, cwdFs, execArgv, stdout, userStatus,
                   childStatus, runStatus, pairA, pairB,
                   umask, procs, pullVars, other>>

\* pivot_root(2): the mounts at or below new_root move to "/", every other
\* mount moves below put_old
Pivoted(ms, newRoot, putOld) ==
    [i \in 1..Len(ms) |->
        IF IsPrefix(newRoot, ms[i].target)
        THEN [ms[i] EXCEPT !.target = StripPrefix(newRoot, @)]
        ELSE [ms[i] EXCEPT !.target = StripPrefix(newRoot, putOld) \o @]]

\* pivot_root(2) is refused unless new_root is a mount point, put_old is a
\* directory at or below it, and neither the mount holding put_old nor the
\* parent mount of new_root is shared
PivotAllowed(d, ms, newRoot, putOld) ==
    /\ IsMountPoint(ms, newRoot)
    /\ IsPrefix(newRoot, putOld)
    /\ IsDir(d, ms, putOld)
    /\ Mnt(ms, putOld).prop # "shared"
    /\ Mnt(ms, SubSeq(newRoot, 1, Len(newRoot) - 1)).prop # "shared"

\* line 310: the new root handed to pivot_root
PivotNewRoot(img) == RootDir(img)

\* lines 308-310: the directory the old root is moved to
PivotPutOld(img) == OldRoot(img)

\* line 310: unix.PivotRoot(rootDir, oldRoot)
PivotRoot ==
    /\ pc = "pivot_root"
    /\ LET newRoot == PivotNewRoot(image)
           putOld  == PivotPutOld(image)
       IN  \E e \in {NoError, "pivot_root"} :
              /\ ~PivotAllowed(disk, mounts, newRoot, putOld) => e # NoError
              /\ mounts' = IF e = NoError THEN Pivoted(mounts, newRoot, putOld)
                           ELSE mounts
              /\ err' = e
              /\ pc' = NoErr(e, After(pc))
    /\ UNCHANGED <<osArgs, stdin, run, disk, staleAtStart, childNs, childArgs,
                   image, command, tmpfs, hostname, cwdFs, execArgv, stdout,
                   userStatus, childStatus, runStatus, pairA, pairB,
                   umask, procs, pullVars, other>>

\* line 311: unix.Chdir("/")
Chdir ==
    /\ pc = "chdir"
    /\ \E e \in {NoError, "chdir"} :
          /\ cwdFs' = IF e = NoError THEN Mnt(mounts, <<>>).fstype ELSE cwdFs
          /\ err' = e
          /\ pc' = NoErr(e, After(pc))
    /\ UNCHANGED <<osArgs, stdin, run, disk, staleAtStart, childNs, childArgs,
                   image, command, mounts, tmpfs, hostname, execArgv, stdout,
                   userStatus, childStatus, runStatus, pairA, pairB,
                   umask, procs, pullVars, other>>

\* umount2(target, MNT_DETACH): the mount at target goes with all below it
Detached(ms, target) == SelectSeq(ms, LAMBDA m : ~IsPrefix(target, m.target))

\* line 312: unix.Unmount("/oldroot", MNT_DETACH)
Unmount ==
    /\ pc = "unmount"
    /\ \E e \in {NoError, "unmount"} :
          /\ ~IsMountPoint(mounts, <<"oldroot">>) => e # NoError
          /\ mounts' = IF e = NoError THEN Detached(mounts, <<"oldroot">>) ELSE mounts
          /\ err' = e
          /\ pc' = NoErr(e, After(pc))
    /\ UNCHANGED <<osArgs, stdin, run, disk, staleAtStart, childNs, childArgs,
                   image, command, tmpfs, hostname, cwdFs, execArgv, stdout,
                   userStatus, childStatus, runStatus, pairA, pairB,
                   umask, procs, pullVars, other>>

(***************************************************************************)
(* The user command                                                        *)
(***************************************************************************)
\* line 314: exec.Command(command), the argv of the started process
ExecArgv(cmd, args) == <<cmd>>

\* lines 314-318: cmd.Run starts the command inside the container
Exec ==
    /\ pc = "exec"
    /\ \E e \in {NoError, "exec"} :
          /\ execArgv' = IF e = NoError
                         THEN ExecArgv(command, SubSeq(childArgs, 4, Len(childArgs)))
                         ELSE execArgv
          /\ err' = e
          /\ pc' = NoErr(e, After(pc))
    /\ UNCHANGED <<osArgs, stdin, run, disk, staleAtStart, childNs, childArgs,
                   image, command, mounts, tmpfs, hostname, cwdFs, stdout,
                   userStatus, childStatus, runStatus, pairA, pairB,
                   umask, pullVars, other>>
    /\ procs' = IF err' = NoError THEN Start(procs, command) ELSE procs

\* the files a user command creates, overwrites or removes
UserPaths == {<<"newfile">>, <<"hello.txt">>}

\* the path a file argument names
ArgPath(s) ==
    CASE s = "/hello.txt" -> <<"hello.txt">>
      [] s = "/newfile"   -> <<"newfile">>
      [] OTHER            -> <<s>>

\* a user command other than cat writes "x" to a file of the container
UserWrite ==
    /\ pc = "running"
    /\ execArgv[1] # "cat"
    /\ \E p \in UserPaths :
          /\ FsLookup(disk, mounts, p).kind # "dir"
          /\ disk' = FsPut(disk, mounts, p, FileNode("x", run))
    /\ UNCHANGED <<osArgs, stdin, pc, run, staleAtStart, childNs, childArgs, image,
                   command, mounts, tmpfs, hostname, cwdFs, err, execArgv, stdout,
                   userStatus, childStatus, runStatus, pairA, pairB,
                   umask, procs, pullVars, other>>

\* a user command other than cat removes a file of the container
UserRemove ==
    /\ pc = "running"
    /\ execArgv[1] # "cat"
    /\ \E p \in UserPaths :
          /\ FsLookup(disk, mounts, p) # NoNode
          /\ disk' = FsRemoveAll(disk, mounts, p, run)
    /\ UNCHANGED <<osArgs, stdin, pc, run, staleAtStart, childNs, childArgs, image,
                   command, mounts, tmpfs, hostname, cwdFs, err, execArgv, stdout,
                   userStatus, childStatus, runStatus, pairA, pairB,
                   umask, procs, pullVars, other>>

\* what cat prints: its standard input without a file argument, else the
\* file (nothing when there is none)
CatOutput(argv, d, ms, in) ==
    IF Len(argv) < 2 THEN in
    ELSE LET n == FsLookup(d, ms, ArgPath(argv[2]))
         IN  IF n.kind = "file" THEN n.data ELSE ""

CatStatus(argv, d, ms) ==
    IF Len(argv) < 2 THEN 0
    ELSE IF FsLookup(d, ms, ArgPath(argv[2])).kind = "file" THEN 0 ELSE 1

\* line 318: the command ends and cmd.Run returns: an error for a status
\* other than 0
UserExit ==
    /\ pc = "running"
    /\ \E s \in {0, 1} :
          /\ execArgv[1] = "cat" => s = CatStatus(execArgv, disk, mounts)
          /\ userStatus' = s
          /\ stdout' = IF execArgv[1] = "cat"
                       THEN CatOutput(execArgv, disk, mounts, stdin) ELSE stdout
          /\ err' = IF s = 0 THEN NoError ELSE "exit status"
          /\ pc' = NoErr(err', "returned")
    /\ UNCHANGED <<osArgs, stdin, run, disk, staleAtStart, childNs, childArgs,
                   image, command, mounts, tmpfs, hostname, cwdFs, execArgv,
                   childStatus, runStatus, pairA, pairB,
                   umask, pullVars, other>>
    /\ procs' = {p \in procs : p.pid = 1}

\* the exit status of a Go process: 2 after a panic, 0 after main returns
GoExit(l) == IF l = "panic" THEN 2 ELSE 0

\* line 212: the child is gone, its namespaces with it; cmd.Run in the
\* launcher returns, an error for a status other than 0
Wait ==
    /\ pc \in {"panic", "returned"}
    /\ childStatus' = GoExit(pc)
    /\ runStatus' = GoExit(NoErr(IF childStatus' = 0 THEN NoError ELSE "exit status",
                                 "returned"))
    /\ pc' = "done"
    /\ childNs' = {}
    /\ mounts' = <<>>
    /\ tmpfs' = {}
    /\ UNCHANGED <<osArgs, stdin, run, disk, staleAtStart, childArgs, image,
                   command, hostname, cwdFs, err, execArgv, stdout, userStatus,
                   pairA, pairB,
                   umask, pullVars, other>>
    /\ procs' = {}

\* the same command line is entered again
NextRun ==
    /\ pc = "done"
    /\ run < MaxRuns
    /\ run' = run + 1
    /\ pc' = "main"
    /\ staleAtStart' = ContainerData(disk)
    /\ childNs' = {}
    /\ childArgs' = <<>>
    /\ image' = NoImage
    /\ command' = ""
    /\ mounts' = <<>>
    /\ tmpfs' = {}
    /\ hostname' = "host"
    /\ cwdFs' = "hostfs"
    /\ err' = NoError
    /\ execArgv' = <<>>
    /\ stdout' = ""
    /\ userStatus' = -1
    /\ childStatus' = -1
    /\ runStatus' = -1
    /\ UNCHANGED <<osArgs, stdin, disk, pairA, pairB,
                   umask, pullVars, other>>
    /\ procs' = {}

Next ==
    \/ LauncherMain
    \/ Run
    \/ ChildMain
    \/ InitDirStep
    \/ Sethostname
    \/ MountPrivate
    \/ MountOverlay
    \/ MountPseudo
    \/ Mknod
    \/ PivotRoot
    \/ Chdir
    \/ Unmount
    \/ Exec
    \/ UserWrite
    \/ UserRemove
    \/ UserExit
    \/ Wait
    \/ NextRun

Spec == Init /\ [][Next]_vars

(***************************************************************************)
(* The container directories of two (name, tag) pairs                      *)
(***************************************************************************)
\* the names and the tags of at most MaxLen characters
Names == {StrOf(cs) : cs \in CharSeqs(MaxLen)}

Pairs == [Name : Names, Tag : Names]

\* lines 228-237: the four initDir calls of RunChild for one pair
MakeContainerDirs(d, ms, img, g) ==
    InitDir(InitDir(InitDir(InitDir(d, ms, RootDir(img), g),
                            ms, RootFsDir(img), g),
                    ms, RwDir(img), g),
            ms, WorkDir(img), g)

InitPaths ==
    /\ pairA \in Pairs
    /\ pairB \in Pairs
    /\ osArgs = <<>>
    /\ stdin = ""
    /\ pc = "dirsA"
    /\ run = 1
    /\ disk = MainDirs(BaseDisk, 0)
    /\ staleAtStart = {}
    /\ Idle
    /\ umask = <<0, 2, 2>>
    /\ NoPull
    /\ other = Nobody

\* RunChild for the first pair makes its directories
MakeDirsA ==
    /\ pc = "dirsA"
    /\ disk' = MakeContainerDirs(disk, HostMounts, pairA, 1)
    /\ pc' = "dirsB"
    /\ UNCHANGED <<osArgs, stdin, run, staleAtStart, childNs, childArgs, image,
                   command, mounts, tmpfs, hostname, cwdFs, err, execArgv, stdout,
                   userStatus, childStatus, runStatus, pairA, pairB,
                   umask, procs, pullVars, other>>

\* RunChild for the second pair makes its directories
MakeDirsB ==
    /\ pc = "dirsB"
    /\ disk' = MakeContainerDirs(disk, HostMounts, pairB, 2)
    /\ pc' = "dirsDone"
    /\ UNCHANGED <<osArgs, stdin, run, staleAtStart, childNs, childArgs, image,
                   command, mounts, tmpfs, hostname, cwdFs, err, execArgv, stdout,
                   userStatus, childStatus, runStatus, pairA, pairB,
                   umask, procs, pullVars, other>>

NextPaths ==
    \/ MakeDirsA
    \/ MakeDirsB

SpecPaths == InitPaths /\ [][NextPaths]_vars

(***************************************************************************)
(* Pull: setupImageDir, loadToken, downloadLayers                          *)
(***************************************************************************)
\* number of successive `pull` invocations
MaxPulls == 2

\* the image references that are pulled
PullRefs == {<<"a", ":", "a">>, <<"a", ":", "b">>, <<"b", ":", "a">>}

PullInvocations == {<<"dockie", "pull", r>> : r \in PullRefs}

\* the media types downloadLayers tells apart (lines 155, 172, 178)
OciManifest == "application/vnd.oci.image.manifest.v1+json"

OciLayerTarGzip == "application/vnd.oci.image.layer.v1.tar+gzip"

DockerRootfsDiff == "application/vnd.docker.image.rootfs.diff.tar.gzip"

ManifestRec(mt, digest, os, arch) ==
    [mediaType |-> mt, digest |-> digest, os |-> os, arch |-> arch]

LayerRec(mt, digest) == [mediaType |-> mt, digest |-> digest]

\* what the registry answers to .../manifests/<tag> (line 132): a:a has a
\* two-layer linux/amd64 manifest and an arm64 one, a:b a single layer given
\* as a rootfs diff, b:a a one-layer manifest and an entry of another type
RegistryManifests(img) ==
    CASE img.Name = "a" /\ img.Tag = "a" ->
            <<ManifestRec(OciManifest, "sha256:m1", "linux", "amd64"),
              ManifestRec(OciManifest, "sha256:m2", "linux", "arm64")>>
      [] img.Name = "a" /\ img.Tag = "b" ->
            <<ManifestRec(DockerRootfsDiff, "sha256:l1", "linux", "amd64")>>
      [] OTHER ->
            <<ManifestRec("application/vnd.in-toto+json", "sha256:m4", "linux", "amd64"),
              ManifestRec(OciManifest, "sha256:m3", "linux", "amd64")>>

\* what the registry answers to .../blobs/<manifest digest> (line 157)
RegistryLayers(digest) ==
    CASE digest = "sha256:m1" ->
            <<LayerRec(OciLayerTarGzip, "sha256:l1"),
              LayerRec("application/vnd.in-toto+json", "sha256:l9"),
              LayerRec(OciLayerTarGzip, "sha256:l2")>>
      [] digest = "sha256:m2" -> <<LayerRec(OciLayerTarGzip, "sha256:l3")>>
      [] OTHER -> <<LayerRec(OciLayerTarGzip, "sha256:l2")>>

\* the files a layer's tar archive holds: name -> content
LayerFiles(digest) ==
    CASE digest = "sha256:l1" -> [n \in {"hello.txt", "sh"} |-> "hi"]
      [] digest = "sha256:l2" -> [n \in {"hello.txt", "app"} |-> "x"]
      [] OTHER                -> [n \in {"arm"} |-> "y"]

\* lines 143-148: the manifests for linux/amd64
PlatformManifests(ms) ==
    SelectSeq(ms, LAMBDA m : m.os = "linux" /\ m.arch = "amd64")

\* lines 154-182: the layer digests one manifest adds
ManifestLayerDigests(manifest) ==
    CASE manifest.mediaType = OciManifest ->
            LET ls == SelectSeq(RegistryLayers(manifest.digest),
                                LAMBDA l : l.mediaType = OciLayerTarGzip)
            IN  [i \in 1..Len(ls) |-> ls[i].digest]
      [] manifest.mediaType = DockerRootfsDiff -> <<manifest.digest>>
      [] OTHER -> <<>>

\* lines 152-183: layerDigests over all manifests, in order
RECURSIVE LayerDigestsFrom(_, _)
LayerDigestsFrom(ms, i) ==
    IF i > Len(ms) THEN <<>>
    ELSE ManifestLayerDigests(ms[i]) \o LayerDigestsFrom(ms, i + 1)

\* the directories of image.Dir (lines 79-90)
ImageDirOf(img) == Join(Abs(ImagesPath), img.Name)

LayersDir(img) == Join(ImageDirOf(img), "layers")

ContentsDir(img) == Join(LayersDir(img), "contents")

\* a variant of setupImageDir that keeps what is there
SetupImageDirKeep(d, img, g) ==
    InitDirKeep(InitDirKeep(InitDirKeep(d, HostMounts, ImageDirOf(img), g),
                            HostMounts, LayersDir(img), g),
                HostMounts, ContentsDir(img), g)

\* setupImageDir, lines 78-91: initDir of the three directories
SetupImageDir(d, img, g) ==
    InitDir(InitDir(InitDir(d, HostMounts, ImageDirOf(img), g),
                    HostMounts, LayersDir(img), g),
            HostMounts, ContentsDir(img), g)

\* line 187: the file the layer is downloaded into
TarFile(img, digest) == Join(LayersDir(img), digest \o ".tar.gz")

\* line 193
UnpackDir(img) == Join(ContentsDir(img), img.Tag)

\* line 195: tar zxvf tarFile -C dir writes the files of the archive
Untar(d, dir, files, g) ==
    [q \in DOMAIN d \cup {Join(dir, n) : n \in DOMAIN files} |->
        IF \E n \in DOMAIN files : q = Join(dir, n)
        THEN FileNode(files[q[Len(q)]], g)
        ELSE d[q]]

\* the image paths on the disk
ImageData(d) == {q \in DOMAIN d : IsPrefix(Abs(ImagesPath), q)}

InitPull ==
    /\ osArgs \in PullInvocations
    /\ stdin = ""
    /\ pc = "pull_main"
    /\ run = 1
    /\ disk = BaseDisk
    /\ staleAtStart = {}
    /\ Idle
    /\ pairA = NoImage
    /\ pairB = NoImage
    /\ umask = <<0, 2, 2>>
    /\ NoPull
    /\ other = Nobody

\* main, lines 24-37: directories, image reference, dispatch to Pull
PullMain ==
    /\ pc = "pull_main"
    /\ \E e \in {NoError, "mkdirall"} :
          /\ disk' = IF e = NoError THEN MainDirs(disk, run) ELSE disk
          /\ image' = IF e = NoError THEN ImageOf(osArgs[3]) ELSE image
          /\ err' = e
          /\ pc' = NoErr(e, "setup_image")
    /\ UNCHANGED <<osArgs, stdin, run, staleAtStart, childNs, childArgs,
                   command, mounts, tmpfs, hostname, cwdFs, execArgv, stdout,
                   userStatus, childStatus, runStatus, pairA, pairB,
                   umask, procs, pullVars, other>>

\* line 53: image.setupImageDir()
SetupImage ==
    /\ pc = "setup_image"
    /\ \E e \in {NoError, "initdir"} :
          /\ disk' = IF e = NoError THEN SetupImageDir(disk, image, run) ELSE disk
          /\ err' = e
          /\ pc' = NoErr(e, "load_token")
    /\ UNCHANGED <<osArgs, stdin, run, staleAtStart, childNs, childArgs, image,
                   command, mounts, tmpfs, hostname, cwdFs, execArgv, stdout,
                   userStatus, childStatus, runStatus, pairA, pairB,
                   umask, procs, pullVars, other>>

\* loadToken, lines 95-111
LoadToken ==
    /\ pc = "load_token"
    /\ \E e \in {NoError, "http", "status", "unmarshal"} :
          /\ token' = IF e = NoError THEN "token" ELSE token
          /\ err' = e
          /\ pc' = NoErr(e, "manifests")
    /\ UNCHANGED <<osArgs, stdin, run, disk, staleAtStart, childNs, childArgs,
                   image, command, mounts, tmpfs, hostname, cwdFs, execArgv,
                   stdout, userStatus, childStatus, runStatus, pairA, pairB,
                   umask, procs, layerDigests, layerNo, other>>

\* downloadLayers, lines 131-183: the manifests and the layer digests
FetchManifests ==
    /\ pc = "manifests"
    /\ \E e \in {NoError, "fetch", "unmarshal"} :
          /\ layerDigests' =
                IF e = NoError
                THEN LayerDigestsFrom(PlatformManifests(RegistryManifests(image)), 1)
                ELSE layerDigests
          /\ layerNo' = IF e = NoError THEN 1 ELSE layerNo
          /\ err' = e
          /\ pc' = NoErr(e, "layers")
    /\ UNCHANGED <<osArgs, stdin, run, disk, staleAtStart, childNs, childArgs,
                   image, command, mounts, tmpfs, hostname, cwdFs, execArgv,
                   stdout, userStatus, childStatus, runStatus, pairA, pairB,
                   umask, procs, token, other>>

\* downloadLayers, lines 184-196: one round of the loop over layerDigests:
\* the archive is stored, the unpack directory is initialised, tar unpacks
DownloadLayer ==
    /\ pc = "layers"
    /\ layerNo <= Len(layerDigests)
    /\ LET digest == layerDigests[layerNo]
           stored == Put(disk, TarFile(image, digest), FileNode(digest, run))
           reset  == InitDir(stored, HostMounts, UnpackDir(image), run)
       IN  \E e \in {NoError, "create", "fetch", "tar"} :
              /\ disk' = CASE e = NoError  -> Untar(reset, UnpackDir(image),
                                                    LayerFiles(digest), run)
                           [] e = "create" -> disk
                           [] e = "fetch"  -> Put(disk, TarFile(image, digest),
                                                  FileNode("", run))
                           [] e = "tar"    -> reset
              /\ layerNo' = IF e = NoError THEN layerNo + 1 ELSE layerNo
              /\ err' = e
              /\ pc' = NoErr(e, "layers")
    /\ UNCHANGED <<osArgs, stdin, run, staleAtStart, childNs, childArgs, image,
                   command, mounts, tmpfs, hostname, cwdFs, execArgv, stdout,
                   userStatus, childStatus, runStatus, pairA, pairB,
                   umask, procs, token, layerDigests, other>>

\* lines 184, 59: the loop is over, Pull returns
Pulled ==
    /\ pc = "layers"
    /\ layerNo > Len(layerDigests)
    /\ pc' = "pulled"
    /\ UNCHANGED <<osArgs, stdin, run, disk, staleAtStart, childNs, childArgs,
                   image, command, mounts, tmpfs, hostname, cwdFs, err, execArgv,
                   stdout, userStatus, childStatus, runStatus, pairA, pairB,
                   umask, procs, pullVars, other>>

\* the `pull` process ends: status 2 after a panic
PullExit ==
    /\ pc \in {"panic", "pulled"}
    /\ runStatus' = GoExit(pc)
    /\ pc' = "done"
    /\ UNCHANGED <<osArgs, stdin, run, disk, staleAtStart, childNs, childArgs,
                   image, command, mounts, tmpfs, hostname, cwdFs, err, execArgv,
                   stdout, userStatus, childStatus, pairA, pairB,
                   umask, procs, pullVars, other>>

\* another image reference is pulled
NextPull ==
    /\ pc = "done"
    /\ run < MaxPulls
    /\ run' = run + 1
    /\ osArgs' \in PullInvocations
    /\ pc' = "pull_main"
    /\ staleAtStart' = ImageData(disk)
    /\ image' = NoImage
    /\ err' = NoError
    /\ runStatus' = -1
    /\ token' = ""
    /\ layerDigests' = <<>>
    /\ layerNo' = 0
    /\ UNCHANGED <<stdin, disk, childNs, childArgs, command, mounts, tmpfs,
                   hostname, cwdFs, execArgv, stdout, userStatus, childStatus,
                   pairA, pairB, umask, procs, other>>

NextOfPull ==
    \/ PullMain
    \/ SetupImage
    \/ LoadToken
    \/ FetchManifests
    \/ DownloadLayer
    \/ Pulled
    \/ PullExit
    \/ NextPull

SpecPull == InitPull /\ [][NextOfPull]_vars

(***************************************************************************)
(* Two bootstrappers at once: each has its own namespaces and process      *)
(* state, the host disk is one.  One of them is the current process, whose *)
(* state is in the variables; the state of the other is kept in `other`.   *)
(***************************************************************************)
\* the image references of two launches at the same time
ConcRefs == {<<"a", ":", "a">>, <<"a", ":", "b">>}

\* the process state of the current bootstrapper
Context ==
    [osArgs |-> osArgs, pc |-> pc, run |-> run, childNs |-> childNs,
     childArgs |-> childArgs, image |-> image, command |-> command,
     mounts |-> mounts, tmpfs |-> tmpfs, hostname |-> hostname,
     cwdFs |-> cwdFs, err |-> err, execArgv |-> execArgv, stdout |-> stdout,
     userStatus |-> userStatus, procs |-> procs]

\* a child as Run creates it (lines 200-212) for the launch numbered n
NewChild(args, n) ==
    [osArgs |-> args, pc |-> "child_main", run |-> n, childNs |-> Cloneflags,
     childArgs |-> ChildArgsOf(args), image |-> NoImage, command |-> "",
     mounts |-> HostMounts, tmpfs |-> {}, hostname |-> "host",
     cwdFs |-> "hostfs", err |-> NoError, execArgv |-> <<>>, stdout |-> "",
     userStatus |-> -1, procs |-> {Process(1, SelfExe)}]

\* both images are pulled, both launchers have created their child
InitConc ==
    /\ LET c == NewChild(<<"dockie", "run", <<"a", ":", "a">>, "sh">>, 1)
       IN  /\ osArgs = c.osArgs
           /\ pc = c.pc
           /\ run = c.run
           /\ childNs = c.childNs
           /\ childArgs = c.childArgs
           /\ image = c.image
           /\ command = c.command
           /\ mounts = c.mounts
           /\ tmpfs = c.tmpfs
           /\ hostname = c.hostname
           /\ cwdFs = c.cwdFs
           /\ err = c.err
           /\ execArgv = c.execArgv
           /\ stdout = c.stdout
           /\ userStatus = c.userStatus
           /\ procs = c.procs
    /\ \E r \in ConcRefs : other = NewChild(<<"dockie", "run", r, "sh">>, 2)
    /\ stdin = ""
    /\ disk = MainDirs(ImageHello(ImageHello(BaseDisk, [Name |-> "a", Tag |-> "a"]),
                                  [Name |-> "a", Tag |-> "b"]), 0)
    /\ staleAtStart = {}
    /\ childStatus = -1
    /\ runStatus = -1
    /\ pairA = NoImage
    /\ pairB = NoImage
    /\ umask = <<0, 2, 2>>
    /\ NoPull

\* the scheduler lets the other bootstrapper run
Switch ==
    /\ other # Nobody
    /\ other' = Context
    /\ osArgs' = other.osArgs
    /\ pc' = other.pc
    /\ run' = other.run
    /\ childNs' = other.childNs
    /\ childArgs' = other.childArgs
    /\ image' = other.image
    /\ command' = other.command
    /\ mounts' = other.mounts
    /\ tmpfs' = other.tmpfs
    /\ hostname' = other.hostname
    /\ cwdFs' = other.cwdFs
    /\ err' = other.err
    /\ execArgv' = other.execArgv
    /\ stdout' = other.stdout
    /\ userStatus' = other.userStatus
    /\ procs' = other.procs
    /\ UNCHANGED <<stdin, disk, staleAtStart, childStatus, runStatus, pairA,
                   pairB, umask, pullVars>>

NextConc ==
    \/ ChildMain
    \/ InitDirStep
    \/ Sethostname
    \/ MountPrivate
    \/ MountOverlay
    \/ MountPseudo
    \/ Mknod
    \/ PivotRoot
    \/ Chdir
    \/ Unmount
    \/ Exec
    \/ UserExit
    \/ Switch

SpecConc == InitConc /\ [][NextConc]_vars

(***************************************************************************)
(* Properties                                                              *)
(***************************************************************************)
HasOverlay(ms) == \E i \in 1..Len(ms) : ms[i].fstype = "overlay"

\* the overlay mount of the namespace
OverlayOf(ms) == ms[CHOOSE i \in 1..Len(ms) : ms[i].fstype = "overlay"]

\* the root of the process has been switched to the overlay
RootSwitched == HasOverlay(mounts) /\ OverlayOf(mounts).target = <<>>

\* C1: whenever the child's namespace holds the overlay mount, the recursive
\* mount-private of "/" has succeeded before it: every mount of the
\* namespace, the overlay included, is private.
C1_PrivateBeforeOverlay ==
    HasOverlay(mounts) => \A i \in 1..Len(mounts) : mounts[i].prop = "private"

C1_Witness ==
    /\ HasOverlay(mounts)
    /\ pc = "init_proc"
    /\ Len(mounts) = 2

\* everything the namespace shows at or below p
VisibleBelow(d, ms, p) ==
    LET m   == Mnt(ms, p)
        rel == RelIn(ms, p)
    IN  IF m.fstype = "hostfs" THEN {d[q] : q \in {x \in DOMAIN d : IsPrefix(rel, x)}}
        ELSE IF m.fstype = "overlay"
        THEN {OvLookup(d, m, r) :
                r \in {StripPrefix(m.upperdir, q) :
                          q \in {x \in DOMAIN d : IsPrefix(m.upperdir \o rel, x)}}
                      \cup {StripPrefix(m.lowerdir, q) :
                          q \in {x \in DOMAIN d : IsPrefix(m.lowerdir \o rel, x)}}}
             \ {NoNode}
        ELSE {}

\* C2: once a mount operation has touched the container paths, they are the
\* directories made by initDir in this run and hold nothing older: from the
\* overlay mount on, the container directory, cow_rw and cow_workdir exist
\* on the disk and nothing below the container directory dates from before
\* this run; when pivot-root is about to be called, oldroot is a directory
\* of this run with nothing older visible in it.
C2_ReinitializedBeforeMount ==
    /\ HasOverlay(mounts) =>
          /\ {RootDir(image), RwDir(image), WorkDir(image)} \subseteq DOMAIN disk
          /\ \A q \in DOMAIN disk : IsPrefix(RootDir(image), q) => disk[q].gen = run
    /\ pc = "pivot_root" =>
          /\ FsLookup(disk, mounts, OldRoot(image)).kind = "dir"
          /\ \A n \in VisibleBelow(disk, mounts, OldRoot(image)) : n.gen = run

C2_Witness ==
    /\ RootSwitched
    /\ pc = "chdir"
    /\ RwDir(image) \in staleAtStart
    /\ Join(ImageDir(image), "oldroot") \in DOMAIN disk

\* the calls of RunChild that make up bootstrap steps 1-9
BootstrapSteps == {StepOrder[k] : k \in 1..Len(StepOrder)} \ {"exec"}

\* C3: a failing call of bootstrap steps 1-9 ends the bootstrapper there:
\* control goes to the panic and nowhere else, the mount table and the
\* device nodes stay as they were (nothing is unmounted), no user command
\* has been or is started, and after the panic the process only ends.
C3_FailureAborts ==
    [][/\ (pc \in BootstrapSteps /\ err' # NoError) =>
              /\ pc' = "panic"
              /\ mounts' = mounts
              /\ tmpfs' = tmpfs
              /\ execArgv' = <<>>
       /\ pc = "panic" => pc' = "done" /\ execArgv' = execArgv]_vars

C3_Witness ==
    /\ pc = "panic"
    /\ err = "pivot_root"
    /\ Len(mounts) = 5
    /\ execArgv = <<>>

\* C4: while the user command runs, the root and the working directory of
\* the process are the overlay and the namespace holds no mount of the host
\* root any more: pivot-root, chdir and the detach-unmount all succeeded.
C4_NoHostRootWhileRunning ==
    pc = "running" =>
        /\ RootSwitched
        /\ cwdFs = "overlay"
        /\ \A i \in 1..Len(mounts) : mounts[i].fstype # "hostfs"

C4_Witness ==
    /\ pc = "running"
    /\ execArgv # <<>>
    /\ Len(mounts) = 4

\* the image the `run` invocation names
Requested == ImageOf(osArgs[3])

\* C5: when the extracted-layers directory of the requested image is not on
\* the disk, no child is ever created in new namespaces and no user command
\* is started.
C5_MissingLowerFailsBeforeNamespaces ==
    ImageDir(Requested) \notin DOMAIN disk =>
        /\ childNs = {}
        /\ pc \in {"main", "run", "done"}
        /\ execArgv = <<>>

\* C6: the container paths of two distinct (name, tag) pairs never overlap.
C6_DistinctPairsDisjointPaths ==
    pairA # pairB =>
        \A p \in ContainerPaths(pairA), q \in ContainerPaths(pairB) : ~Overlap(p, q)

\* the paths of the container's root looked at by C7 and C8
RootRels ==
    {<<"proc">>, <<"sys">>, <<"dev">>, <<"oldroot">>, <<"newfile">>, <<"hello.txt">>,
     <<"proc", "1">>}

\* the node the upper layer has to hold for the root to show n at rel
InUpper(d, ov, rel, n) ==
    IF n = NoNode
    THEN (ov.upperdir \o rel) \in DOMAIN d => d[ov.upperdir \o rel].kind = "whiteout"
    ELSE (ov.upperdir \o rel) \in DOMAIN d /\ d[ov.upperdir \o rel] = n

\* the disk paths that differ between two disks
Changed(d, e) ==
    {q \in DOMAIN d \cup DOMAIN e :
        ~(q \in DOMAIN d /\ q \in DOMAIN e) \/ (q \in DOMAIN d /\ q \in DOMAIN e /\ d[q] # e[q])}

\* C7: no step changes the extracted-layers directory of the image; a step
\* that changes the disk through the mounted root (the initDir calls for
\* proc, sys, dev and oldroot, the writes and removals of the user command)
\* changes only the cow_rw directory, changes what the root shows, and what
\* the root then shows at a changed path is what cow_rw holds there.
C7_WritesLandInUpper ==
    [][/\ Tree(disk', ImageDir(Requested)) = Tree(disk, ImageDir(Requested))
       /\ (HasOverlay(mounts) /\ mounts' = mounts /\ disk' # disk) =>
             LET ov == OverlayOf(mounts)
                 changedRels == {r \in RootRels :
                                    OvLookup(disk', ov, r) # OvLookup(disk, ov, r)}
             IN  /\ \A q \in Changed(disk, disk') : IsPrefix(RwDir(image), q)
                 /\ changedRels # {}
                 /\ \A r \in changedRels :
                       /\ FsLookup(disk', mounts', ov.target \o r) = OvLookup(disk', ov, r)
                       /\ InUpper(disk', ov, r, OvLookup(disk', ov, r))]_vars

C7_Witness ==
    /\ pc = "running"
    /\ FsLookup(disk, mounts, <<"newfile">>) = FileNode("x", run)
    /\ disk[Join(RwDir(image), "newfile")] = FileNode("x", run)
    /\ FsLookup(disk, mounts, <<"hello.txt">>) = NoNode
    /\ disk[Join(ImageDir(image), "hello.txt")] = FileNode("hi", 0)
    /\ Join(ImageDir(image), "newfile") \notin DOMAIN disk

\* C8: right after the overlay mount of any run, the second included, the
\* root shows exactly the image's extracted layers, cow_rw is empty and
\* cow_workdir holds nothing from before the run.
C8_FreshRootOnRerun ==
    (pc = "init_proc" /\ HasOverlay(mounts)) =>
        LET ov == OverlayOf(mounts)
        IN  /\ \A r \in RootRels :
                  OvLookup(disk, ov, r) =
                      IF (ImageDir(image) \o r) \in DOMAIN disk
                      THEN disk[ImageDir(image) \o r] ELSE NoNode
            /\ {q \in DOMAIN disk : IsPrefix(RwDir(image), q)} = {RwDir(image)}
            /\ \A q \in DOMAIN disk : IsPrefix(WorkDir(image), q) => disk[q].gen = run

C8_Witness ==
    /\ run = 2
    /\ pc = "init_proc"
    /\ HasOverlay(mounts)
    /\ Join(RwDir(image), "newfile") \in staleAtStart
    /\ Join(RwDir(image), "proc") \in staleAtStart

\* C9: the overlay is mounted on the container's rootfs directory with
\* cow_rw as upper and cow_workdir as work, pivot-root switches to that
\* mount point, and cow_rw and cow_workdir lie outside it.
C9_OverlayOnRootfs ==
    (HasOverlay(mounts) /\ ~RootSwitched) =>
        LET ov == OverlayOf(mounts)
        IN  /\ ov.target = RootFsDir(image)
            /\ ov.upperdir = RwDir(image)
            /\ ov.workdir = WorkDir(image)
            /\ PivotNewRoot(image) = ov.target
            /\ ~IsPrefix(ov.target, ov.upperdir)
            /\ ~IsPrefix(ov.target, ov.workdir)

\* the command and its arguments as given to `run`
RequestedCommand == SubSeq(osArgs, 4, Len(osArgs))

\* C10: the started command is the requested command with its arguments;
\* `cat /hello.txt` on an image whose /hello.txt holds "hi" prints "hi" and
\* exits with status 0.
C10_CommandRunsWithArguments ==
    /\ execArgv # <<>> => execArgv = RequestedCommand
    /\ ( /\ RequestedCommand = <<"cat", "/hello.txt">>
         /\ userStatus # -1
         /\ Join(ImageDir(Requested), "hello.txt") \in DOMAIN disk ) =>
            stdout = "hi" /\ userStatus = 0

\* C11: whatever status the user command ends with, the bootstrapper and
\* then the `run` process end with that same status.
C11_ExitStatusPassedThrough ==
    (pc = "done" /\ userStatus # -1) =>
        childStatus = userStatus /\ runStatus = userStatus

\* C12: while the user command runs it has replaced the bootstrapper: it is
\* the only process of the container's PID namespace, and no bootstrapper
\* process is alive beside it.
C12_CommandIsSoleProcess ==
    pc = "running" =>
        /\ Cardinality(procs) = 1
        /\ \A p \in procs : p.exe = command /\ p.exe # SelfExe

\* the names of the per-container directories the runs have made
ContainerDirNames ==
    {q[Len(Abs(ContainerDataPath)) + 1] :
        q \in {r \in ContainerData(disk) :
                   Len(r) > Len(Abs(ContainerDataPath)) /\ disk[r].gen >= 1}}

\* C13 (as claimed): the hostname set by the bootstrapper and the name of
\* the per-container directory both equal "<name>_<tag>".
C13_IdentifierIsNameTag ==
    LET id == Requested.Name \o "_" \o Requested.Tag
    IN  /\ hostname # "host" => hostname = id
        /\ \A n \in ContainerDirNames : n = id

\* C13 (amended): the hostname set by the bootstrapper and the name of the
\* per-container directory both equal "dockie_<name>_<tag>".
C13_IdentifierIsPrefixedNameTag ==
    LET id == "dockie_" \o Requested.Name \o "_" \o Requested.Tag
    IN  /\ hostname # "host" => hostname = id
        /\ \A n \in ContainerDirNames : n = id

\* the bootstrapper of `run a:a` has made its directory and set its hostname
C13_Witness ==
    /\ pc = "mount_private"
    /\ hostname = "dockie_a_a"
    /\ ContainerDirNames = {"dockie_a_a"}

\* the positions of the bootstrapper after its three mknod calls succeeded
AfterMknod == {"init_oldroot", "pivot_root", "chdir", "unmount", "exec", "running"}

\* the device nodes of bootstrap step 6 as the claim has them
ClaimedDevices ==
    { [name |-> "null",   mode |-> [type |-> "chr", perm |-> <<6, 6, 6>>],
       major |-> 1, minor |-> 3],
      [name |-> "tty",    mode |-> [type |-> "chr", perm |-> <<6, 6, 6>>],
       major |-> 5, minor |-> 0],
      [name |-> "random", mode |-> [type |-> "chr", perm |-> <<6, 6, 6>>],
       major |-> 1, minor |-> 8] }

\* C14: after bootstrap step 6 the tmpfs on the container's /dev holds
\* exactly the character devices null (1,3), tty (5,0) and random (1,8), each
\* with mode 0666, and no device node was made anywhere else.
C14_ThreeDeviceNodes ==
    pc \in AfterMknod =>
        /\ Mnt(mounts, IF RootSwitched THEN <<"dev">> ELSE DevDir(image)).fstype = "tmpfs"
        /\ tmpfs = ClaimedDevices
        /\ \A q \in DOMAIN disk : disk[q].kind # "chr"

\* C15: after a successful pull the contents directory of the tag holds
\* the files of every downloaded layer, not only those of the last one.
C15_AllLayersUnpacked ==
    pc = "pulled" =>
        \A i \in 1..Len(layerDigests) :
            \A n \in DOMAIN LayerFiles(layerDigests[i]) :
                Join(UnpackDir(image), n) \in DOMAIN disk

\* the per-tag directories in the contents directory of an image
TagDirs(d, img) ==
    {q \in DOMAIN d : /\ IsPrefix(ContentsDir(img), q)
                      /\ Len(q) = Len(ContentsDir(img)) + 1}

\* C19: Pull resets the whole directory of the image name before it
\* downloads: from setupImageDir on nothing of an earlier pull is left in
\* it, and after the pull only the tag just pulled has a contents directory.
C19_PullResetsImageDir ==
    /\ pc \in {"load_token", "manifests", "layers", "pulled"} =>
          \A q \in DOMAIN disk :
              IsPrefix(ImageDirOf(image), q) => disk[q].gen = run
    /\ pc = "pulled" => TagDirs(disk, image) = {UnpackDir(image)}

\* a:b was pulled after a:a, whose contents directory existed before
C19_Witness ==
    /\ pc = "pulled"
    /\ image = [Name |-> "a", Tag |-> "b"]
    /\ Join(Join(ContentsDir(image), "a"), "app") \in staleAtStart
    /\ Join(UnpackDir(image), "sh") \in DOMAIN disk

\* C16: a `run` invocation that lacks the command is rejected by the
\* launcher: no child is ever created in new namespaces for it.
C16_MissingCommandRejectedByLauncher ==
    RequestedCommand = <<>> => (childNs = {} /\ procs = {})

\* the image the other bootstrapper was started for
OtherRequested == ImageOf(other.osArgs[3])

\* both bootstrappers exist and the step is one of the current process
StepOfCurrent == other # Nobody /\ run' = run

\* C17: when two bootstrappers with distinct container identifiers run at
\* the same time, no step of one removes, creates or changes a disk path
\* inside the container directory of the other, and no mount of one has its
\* target or an overlay layer there.
C17_DistinctContainersApart ==
    [][(StepOfCurrent /\ ContainerId(Requested) # ContainerId(OtherRequested)) =>
          LET theirs == RootDir(OtherRequested)
          IN  /\ \A q \in Changed(disk, disk') : ~IsPrefix(theirs, q)
              /\ Len(mounts') > Len(mounts) =>
                    LET m == mounts'[Len(mounts')]
                    IN  /\ ~IsPrefix(theirs, m.target)
                        /\ m.fstype = "overlay" =>
                              /\ ~IsPrefix(theirs, m.upperdir)
                              /\ ~IsPrefix(theirs, m.workdir)
                              /\ ~IsPrefix(theirs, m.lowerdir)]_vars

\* both bootstrappers, for a:a and a:b, have brought their command up
C17_Witness ==
    /\ other # Nobody
    /\ pc = "running"
    /\ other.pc = "running"
    /\ {hostname, other.hostname} = {"dockie_a_a", "dockie_a_b"}
    /\ RwDir(image) \in DOMAIN disk
    /\ RwDir(other.image) \in DOMAIN disk

\* the directories below rootDir that the overlay of a container needs
OverlayDirs(img) == {RootFsDir(img), RwDir(img), WorkDir(img)}

\* a bootstrapper in this state has initialised rootfs, cow_rw and
\* cow_workdir and is about to mount the overlay or lives on it
PastInit(c) ==
    c.pc \in {"sethostname", "mount_private", "mount_overlay", "init_proc",
              "mount_proc", "init_sys", "mount_sys", "init_dev", "mount_dev",
              "mknod_null", "mknod_tty", "mknod_random", "init_oldroot",
              "pivot_root", "chdir", "unmount", "exec", "running"}

\* C18: nothing serialises two launches of the same identifier: when one
\* bootstrapper has initialised its directories (and may already have them
\* mounted as the overlay's upper and work directories), a successful
\* initDir(rootDir) of the other removes rootfs, cow_rw and cow_workdir from
\* the disk.
C18_ResetRemovesOthersDirs ==
    [][( /\ StepOfCurrent
         /\ ContainerId(Requested) = ContainerId(OtherRequested)
         /\ PastInit(other)
         /\ pc = "init_root" /\ pc' = "init_rootfs" ) =>
            \A p \in OverlayDirs(image) : p \notin DOMAIN disk']_vars

\* the other bootstrapper has the overlay mounted with cow_rw as upper and
\* cow_workdir as work; the current one has just reset the container
\* directory, and these directories are gone from the disk
C18_Witness ==
    /\ other # Nobody
    /\ pc = "init_rootfs"
    /\ HasOverlay(other.mounts)
    /\ OverlayOf(other.mounts).upperdir = RwDir(image)
    /\ OverlayOf(other.mounts).workdir = WorkDir(image)
    /\ RwDir(image) \notin DOMAIN disk
    /\ WorkDir(image) \notin DOMAIN disk
    /\ RootFsDir(image) \notin DOMAIN disk

====
